---- MODULE Spec2Model ----
(***************************************************************************)
(* Jump Topic Note: the selection modal (src/selectableItem.ts) and the    *)
(* jump command that validates the frontmatter property, navigates to a    *)
(* single parent or opens the modal over several (src/main.ts).            *)
(*                                                                         *)
(* Strings are sequences of one-character strings.  Indices into the item  *)
(* list are 0-based as in the source; a TLA+ sequence is read at index+1.  *)
(***************************************************************************)
EXTENDS Integers, Sequences, FiniteSets, TLC

VARIABLES note, modals, invs, trail, run

vars == <<note, modals, invs, trail, run>>

-----------------------------------------------------------------------------
(* Bounds *)

\* longest item list of a stand-alone modal
MaxItems == 4
\* longest list held by the frontmatter property
MaxParents == 3
\* number of times the jump command is invoked in one behaviour
MaxInvocations == 2

-----------------------------------------------------------------------------
(* SelectableModal *)

\* hoveredIndex: number | null
null == -1

Labels == <<"A", "B", "C", "D", "E", "F">>

\* the item list of a stand-alone modal: n items with distinct names
GenericItems(n) ==
    [j \in 1..n |-> [name |-> <<Labels[j]>>,
                     linkText |-> <<"[", "[", Labels[j], "]", "]">>]]

\* constructor: field initialisers and the stored arguments
Modal(items, owner) ==
    [items |-> items,
     owner |-> owner,
     state |-> "constructed",
     activeIndex |-> 0,
     hoveredIndex |-> null,
     itemElements |-> <<>>,
     contentEl |-> <<>>,
     calls |-> <<>>]

\* itemElements[i] is TRUE when the element carries the class is-focused
focusItem(m, index) ==
    [m EXCEPT !.itemElements =
        [i \in DOMAIN m.itemElements |-> (i - 1 = index)]]

\* onOpen that builds the rows and focuses none
onOpen_noFocus(m) ==
    [m EXCEPT !.contentEl = [i \in DOMAIN m.items |-> m.items[i].name],
              !.itemElements = [i \in DOMAIN m.items |-> FALSE]]

onOpen(m) ==
    LET m1 == [m EXCEPT
                 !.contentEl = [i \in DOMAIN m.items |-> m.items[i].name],
                 !.itemElements = [i \in DOMAIN m.items |-> FALSE]]
    IN  IF Len(m1.itemElements) > 0
        THEN focusItem([m1 EXCEPT !.activeIndex = 0], 0)
        ELSE m1

open(m) == onOpen([m EXCEPT !.state = "open"])

\* onClose that leaves itemElements in place
onClose_keepsElements(m) ==
    [m EXCEPT !.contentEl = <<>>, !.hoveredIndex = null]

\* onClose that also puts activeIndex back to 0
onClose_resetsActive(m) ==
    [m EXCEPT !.contentEl = <<>>,
              !.itemElements = <<>>,
              !.hoveredIndex = null,
              !.activeIndex = 0]

onClose(m) ==
    [m EXCEPT !.contentEl = <<>>,
              !.itemElements = <<>>,
              !.hoveredIndex = null]

close(m) == [onClose(m) EXCEPT !.state = "closed"]

\* navigateItems that moves from activeIndex whatever is hovered
navigateItems_ignoresHover(m, direction) ==
    IF Len(m.itemElements) = 0 THEN m
    ELSE
      LET m1 == [m EXCEPT !.hoveredIndex = null]
          newIndex == m1.activeIndex + direction
          m2 == IF newIndex < 0
                THEN [m1 EXCEPT !.activeIndex = Len(m1.itemElements) - 1]
                ELSE IF newIndex >= Len(m1.itemElements)
                     THEN [m1 EXCEPT !.activeIndex = 0]
                     ELSE [m1 EXCEPT !.activeIndex = newIndex]
      IN  focusItem(m2, m2.activeIndex)

\* navigateItems that stops at the last item instead of wrapping to the first
navigateItems_stopsAtEnd(m, direction) ==
    IF Len(m.itemElements) = 0 THEN m
    ELSE
      LET m1 == IF m.hoveredIndex # null
                THEN [m EXCEPT !.activeIndex = m.hoveredIndex,
                               !.hoveredIndex = null]
                ELSE m
          newIndex == m1.activeIndex + direction
          m2 == IF newIndex < 0
                THEN [m1 EXCEPT !.activeIndex = Len(m1.itemElements) - 1]
                ELSE IF newIndex >= Len(m1.itemElements)
                     THEN [m1 EXCEPT !.activeIndex = Len(m1.itemElements) - 1]
                     ELSE [m1 EXCEPT !.activeIndex = newIndex]
      IN  focusItem(m2, m2.activeIndex)

\* navigateItems that stops at the first item instead of wrapping to the last
navigateItems_stopsAtStart(m, direction) ==
    IF Len(m.itemElements) = 0 THEN m
    ELSE
      LET m1 == IF m.hoveredIndex # null
                THEN [m EXCEPT !.activeIndex = m.hoveredIndex,
                               !.hoveredIndex = null]
                ELSE m
          newIndex == m1.activeIndex + direction
          m2 == IF newIndex < 0
                THEN [m1 EXCEPT !.activeIndex = 0]
                ELSE IF newIndex >= Len(m1.itemElements)
                     THEN [m1 EXCEPT !.activeIndex = 0]
                     ELSE [m1 EXCEPT !.activeIndex = newIndex]
      IN  focusItem(m2, m2.activeIndex)

\* navigateItems that keeps the stepped index without wrapping it
navigateItems_noWrap(m, direction) ==
    IF Len(m.itemElements) = 0 THEN m
    ELSE
      LET m1 == IF m.hoveredIndex # null
                THEN [m EXCEPT !.activeIndex = m.hoveredIndex,
                               !.hoveredIndex = null]
                ELSE m
          m2 == [m1 EXCEPT !.activeIndex = m1.activeIndex + direction]
      IN  focusItem(m2, m2.activeIndex)

navigateItems(m, direction) ==
    IF Len(m.itemElements) = 0 THEN m
    ELSE
      LET m1 == IF m.hoveredIndex # null
                THEN [m EXCEPT !.activeIndex = m.hoveredIndex,
                               !.hoveredIndex = null]
                ELSE m
          newIndex == m1.activeIndex + direction
          m2 == IF newIndex < 0
                THEN [m1 EXCEPT !.activeIndex = Len(m1.itemElements) - 1]
                ELSE IF newIndex >= Len(m1.itemElements)
                     THEN [m1 EXCEPT !.activeIndex = 0]
                     ELSE [m1 EXCEPT !.activeIndex = newIndex]
      IN  focusItem(m2, m2.activeIndex)

\* handleMouseOver that records the hovered row and leaves the highlight alone
handleMouseOver_noFocus(m, index) ==
    [m EXCEPT !.hoveredIndex = index]

handleMouseOver(m, index) ==
    focusItem([m EXCEPT !.hoveredIndex = index], index)

\* handleMouseLeave that makes the row the pointer leaves the active one
handleMouseLeave_adoptsHover(m) ==
    LET m1 == IF m.hoveredIndex # null
              THEN [m EXCEPT !.activeIndex = m.hoveredIndex]
              ELSE m
    IN  focusItem([m1 EXCEPT !.hoveredIndex = null], null)

\* handleMouseLeave that puts the highlight back on the active row
handleMouseLeave_fallsBack(m) ==
    focusItem([m EXCEPT !.hoveredIndex = null], m.activeIndex)

handleMouseLeave(m) ==
    focusItem([m EXCEPT !.hoveredIndex = null], null)

\* selectItem that runs the callback and leaves the modal open
selectItem_staysOpen(m, index) ==
    IF index >= 0 /\ index < Len(m.items)
    THEN [m EXCEPT !.calls = Append(@, m.items[index + 1])]
    ELSE m

\* the callback runs, then the modal closes; calls records the callback's arguments
selectItem(m, index) ==
    IF index >= 0 /\ index < Len(m.items)
    THEN close([m EXCEPT !.calls = Append(@, m.items[index + 1])])
    ELSE m

\* Enter: click() on the element at activeIndex runs its click listener
enterHandler(m) ==
    IF m.activeIndex >= 0 /\ m.activeIndex < Len(m.itemElements)
    THEN selectItem(m, m.activeIndex)
    ELSE m

\* Escape bound to the handler of Enter
escapeHandler_confirms(m) == enterHandler(m)

escapeHandler(m) == close(m)

-----------------------------------------------------------------------------
(* String operations used by main.ts *)

Min(a, b) == IF a < b THEN a ELSE b
Max(a, b) == IF a > b THEN a ELSE b

\* String.prototype.substring: both ends clamped to [0, length], swapped if reversed
substring(s, start, end) ==
    LET a == Min(Max(start, 0), Len(s))
        b == Min(Max(end, 0), Len(s))
    IN  SubSeq(s, Min(a, b) + 1, Max(a, b))

\* String.prototype.split on a one-character separator
RECURSIVE split(_, _)
split(s, sep) ==
    IF \E i \in 1..Len(s) : s[i] = sep
    THEN LET i == CHOOSE i \in 1..Len(s) :
                      s[i] = sep /\ \A j \in 1..(i - 1) : s[j] # sep
         IN  <<SubSeq(s, 1, i - 1)>> \o split(SubSeq(s, i + 1, Len(s)), sep)
    ELSE <<s>>

\* String.prototype.lastIndexOf: 0-based, -1 when absent
lastIndexOf(s, ch) ==
    IF \E i \in 1..Len(s) : s[i] = ch
    THEN (CHOOSE i \in 1..Len(s) :
              s[i] = ch /\ \A j \in (i + 1)..Len(s) : s[j] # ch) - 1
    ELSE -1

\* the pattern without its end anchor: /^\[\[.+?\]\]/
regexTest_noEndAnchor(s) ==
    \E k \in 1..Len(s) :
        /\ Len(s) >= k + 4
        /\ s[1] = "[" /\ s[2] = "["
        /\ \A i \in 3..(k + 2) : s[i] \notin {"\n", "\r"}
        /\ s[k + 3] = "]" /\ s[k + 4] = "]"

\* /^\[\[.+?\]\]$/.test(s): "[[" , k >= 1 characters other than a line
\* terminator, "]]", end of input
regexTest(s) ==
    \E k \in 1..Len(s) :
        /\ Len(s) = k + 4
        /\ s[1] = "[" /\ s[2] = "["
        /\ \A i \in 3..(k + 2) : s[i] \notin {"\n", "\r"}
        /\ s[k + 3] = "]" /\ s[k + 4] = "]"

\* extractDisplayNameFromWikilink that never looks at the alias
extractDisplayNameFromWikilink_ignoresAlias(wikilink) ==
    LET bareLink == substring(wikilink, 2, Len(wikilink) - 2)
        parts == split(bareLink, "|")
        mainPart == parts[1]
        lastSlashIndex == lastIndexOf(mainPart, "/")
    IN  IF lastSlashIndex = -1
        THEN mainPart
        ELSE substring(mainPart, lastSlashIndex + 1, Len(mainPart))

extractDisplayNameFromWikilink(wikilink) ==
    LET bareLink == substring(wikilink, 2, Len(wikilink) - 2)
        parts == split(bareLink, "|")
        mainPart == IF Len(parts) > 1 THEN parts[2] ELSE parts[1]
        lastSlashIndex == lastIndexOf(mainPart, "/")
    IN  IF lastSlashIndex = -1
        THEN mainPart
        ELSE substring(mainPart, lastSlashIndex + 1, Len(mainPart))

\* extractInternalPathFromWikilink that keeps the heading reference
extractInternalPathFromWikilink_keepsHeading(wikilink) ==
    LET bareLink == substring(wikilink, 2, Len(wikilink) - 2)
        parts == split(bareLink, "|")
    IN  split(parts[1], "^")[1]

extractInternalPathFromWikilink(wikilink) ==
    LET bareLink == substring(wikilink, 2, Len(wikilink) - 2)
        parts == split(bareLink, "|")
        p1 == split(parts[1], "#")[1]
    IN  split(p1, "^")[1]

-----------------------------------------------------------------------------
(* The jump command *)

\* one invocation of the command: what it has shown, attempted and left pending
NewInvocation ==
    [notices |-> <<>>, navs |-> <<>>, opens |-> <<>>, pending |-> 0, pickers |-> 0]

\* navigateToLink without the return after the not-found Notice
navigateToLink_opensAnyway(inv, linkText, found) ==
    LET internalPath == extractInternalPathFromWikilink(linkText)
        inv1 == [inv EXCEPT !.navs = Append(@, internalPath)]
        inv2 == IF ~found
                THEN [inv1 EXCEPT !.notices = Append(@, "notFound")]
                ELSE inv1
    IN  [inv2 EXCEPT !.opens = Append(@, internalPath),
                     !.pending = @ + 1]

\* found: whether getFirstLinkpathDest returns a file.  navs records the
\* lookups, opens the openFile calls, pending the openFile promises not yet settled.
navigateToLink(inv, linkText, found) ==
    LET internalPath == extractInternalPathFromWikilink(linkText)
        inv1 == [inv EXCEPT !.navs = Append(@, internalPath)]
    IN  IF ~found
        THEN [inv1 EXCEPT !.notices = Append(@, "notFound")]
        ELSE [inv1 EXCEPT !.opens = Append(@, internalPath),
                          !.pending = @ + 1]

\* the type test alone
isWikilink_anyString(item) == item.kind = "string"

\* typeof item === "string" && the wikilink pattern
isWikilink(item) == item.kind = "string" /\ regexTest(item.str)

toModalItem(link) ==
    [name |-> extractDisplayNameFromWikilink(link.str), linkText |-> link.str]

\* the synchronous part of executeJumpLogic on the note f: the invocation's
\* record and the items of the modal it opens (<<>> when it opens none)
executeJumpLogic(f, found) ==
    LET nothing == [inv |-> NewInvocation, modalItems |-> <<>>]
        rawParentsEntry == f.raw
    IN
    IF ~f.activeFile THEN nothing
    ELSE IF ~f.frontmatter THEN nothing
    ELSE IF rawParentsEntry.kind \in {"undefined", "null"} THEN nothing
    ELSE IF rawParentsEntry.kind # "array"
         THEN [nothing EXCEPT !.inv.notices = Append(@, "notAList")]
    ELSE
      LET parentsList == rawParentsEntry.list
          validWikilinks == SelectSeq(parentsList, isWikilink)
          invalidEntriesFound ==
              \E i \in DOMAIN parentsList : ~isWikilink(parentsList[i])
      IN
      IF Len(parentsList) = 0 THEN nothing
      ELSE IF invalidEntriesFound
           THEN [nothing EXCEPT !.inv.notices = Append(@, "invalidEntries")]
      ELSE IF Len(validWikilinks) = 0 THEN nothing
      ELSE IF Len(validWikilinks) = 1
           THEN [nothing EXCEPT
                   !.inv = navigateToLink(@, validWikilinks[1].str, found)]
      ELSE [inv |-> [NewInvocation EXCEPT !.pickers = 1],
            modalItems |-> [i \in DOMAIN validWikilinks |->
                               toModalItem(validWikilinks[i])]]

-----------------------------------------------------------------------------
(* The notes the command is run on *)

StringEntry(s) == [kind |-> "string", str |-> s]
NumberEntry == [kind |-> "number", str |-> <<>>]

\* "[[" body "]]"
Wikilink(body) == <<"[", "[">> \o body \o <<"]", "]">>

LinkA == StringEntry(Wikilink(<<"A">>))
LinkAliased == StringEntry(Wikilink(<<"F", "/", "B", "|", "C">>))
LinkHeading == StringEntry(Wikilink(<<"D", "/", "E", "#", "h">>))
PlainText == StringEntry(<<"p", "l">>)
EmptyLink == StringEntry(Wikilink(<<>>))
EmbeddedLink == StringEntry(Wikilink(<<"A">>) \o <<"x">>)

Entries == {LinkA, LinkAliased, LinkHeading, PlainText, NumberEntry, EmptyLink, EmbeddedLink}

Lists == UNION {[1..n -> Entries] : n \in 0..MaxParents}

Raw(kind, str, list) == [kind |-> kind, str |-> str, list |-> list]

RawValues ==
    {Raw("undefined", <<>>, <<>>), Raw("null", <<>>, <<>>),
     Raw("string", <<"n", "o">>, <<>>), Raw("string", <<>>, <<>>),
     Raw("string", Wikilink(<<"A">>), <<>>),
     Raw("number", <<>>, <<>>), Raw("object", <<>>, <<>>)}
    \cup {Raw("array", <<>>, l) : l \in Lists}

NoActiveFile ==
    [activeFile |-> FALSE, frontmatter |-> FALSE, raw |-> Raw("undefined", <<>>, <<>>)]
NoFrontmatter ==
    [activeFile |-> TRUE, frontmatter |-> FALSE, raw |-> Raw("undefined", <<>>, <<>>)]

Notes ==
    {NoActiveFile, NoFrontmatter}
    \cup {[activeFile |-> TRUE, frontmatter |-> TRUE, raw |-> v] : v \in RawValues}

-----------------------------------------------------------------------------
(* Observation of a stand-alone modal: its last two inputs with the state    *)
(* each was delivered in, and the current run of consecutive ArrowDown keys. *)

Focused(m) == {i - 1 : i \in {e \in DOMAIN m.itemElements : m.itemElements[e]}}

Snap(m) ==
    [state |-> m.state, activeIndex |-> m.activeIndex,
     hoveredIndex |-> m.hoveredIndex, focused |-> Focused(m),
     n |-> Len(m.items)]

NoSnap == [state |-> "none", activeIndex |-> 0, hoveredIndex |-> null,
           focused |-> {}, n |-> 0]

NoRun == [count |-> 0, before |-> NoSnap]

Push(tr, e) == IF Len(tr) < 2 THEN Append(tr, e) ELSE <<tr[2], e>>

NextRun(m, ev) ==
    IF ev = "down" /\ m.state = "open"
    THEN IF run.count = 0 \/ run.count >= Len(m.items)
         THEN [count |-> 1, before |-> Snap(m)]
         ELSE [run EXCEPT !.count = @ + 1]
    ELSE NoRun

-----------------------------------------------------------------------------
(* Actions *)

\* going from m to m2 ran the callback the command gave the modal
CallbackRan(m, m2) == m.owner > 0 /\ Len(m2.calls) > Len(m.calls)

\* the input ev(arg) takes modal k from modals[k] to m2; a callback it made
\* runs navigateToLink for the invocation that opened the modal, where
\* getFirstLinkpathDest finds the file or not
Deliver(k, m2, ev, arg) ==
    LET m == modals[k] IN
    /\ modals' = [modals EXCEPT ![k] = m2]
    /\ IF CallbackRan(m, m2)
       THEN \E found \in BOOLEAN :
                invs' = [invs EXCEPT ![m.owner] =
                           navigateToLink(@, m2.calls[Len(m2.calls)].linkText, found)]
       ELSE UNCHANGED invs
    /\ IF m.owner = 0
       THEN /\ trail' = Push(trail, [ev |-> ev, arg |-> arg, before |-> Snap(m)])
            /\ run' = NextRun(m, ev)
       ELSE UNCHANGED <<trail, run>>
    /\ UNCHANGED note

\* the command's callback: the synchronous part of executeJumpLogic, and
\* open() on the modal it constructs
RunCommand ==
    /\ \E found \in BOOLEAN :
         LET r == executeJumpLogic(note, found)
             j == Len(invs) + 1
         IN  /\ invs' = Append(invs, r.inv)
             /\ modals' = IF r.inv.pickers > 0
                          THEN Append(modals, open(Modal(r.modalItems, j)))
                          ELSE modals
    /\ UNCHANGED <<note, trail, run>>

\* the command invoked at any time, up to MaxInvocations times
JumpCommand ==
    /\ Len(invs) < MaxInvocations
    /\ RunCommand

\* the command invoked once
JumpOnce ==
    /\ invs = <<>>
    /\ RunCommand

\* the promise of openFile settles: fulfilled, or rejected into the catch block
OpenFileSettles ==
    \E j \in DOMAIN invs, ok \in BOOLEAN :
        /\ invs[j].pending > 0
        /\ invs' = [invs EXCEPT ![j] =
                      IF ok THEN [@ EXCEPT !.pending = @ - 1]
                      ELSE [@ EXCEPT !.pending = @ - 1,
                                     !.notices = Append(@, "openError")]]
        /\ UNCHANGED <<note, modals, trail, run>>

\* open() on a constructed stand-alone modal
OpenModal ==
    \E k \in DOMAIN modals :
        /\ modals[k].state = "constructed"
        /\ Deliver(k, open(modals[k]), "open", null)

\* pointer events reach the rows that are in contentEl
Click ==
    \E k \in DOMAIN modals :
        \E i \in 0..(Len(modals[k].contentEl) - 1) :
            Deliver(k, selectItem(modals[k], i), "click", i)

MouseOver ==
    \E k \in DOMAIN modals :
        \E i \in 0..(Len(modals[k].contentEl) - 1) :
            Deliver(k, handleMouseOver(modals[k], i), "over", i)

MouseLeave ==
    \E k \in DOMAIN modals :
        /\ Len(modals[k].contentEl) > 0
        /\ Deliver(k, handleMouseLeave(modals[k]), "leave", null)

\* the key handlers stay registered on the modal's scope once open() has run
ArrowUp ==
    \E k \in DOMAIN modals :
        /\ modals[k].state # "constructed"
        /\ Deliver(k, navigateItems(modals[k], -1), "up", null)

ArrowDown ==
    \E k \in DOMAIN modals :
        /\ modals[k].state # "constructed"
        /\ Deliver(k, navigateItems(modals[k], 1), "down", null)

Enter ==
    \E k \in DOMAIN modals :
        /\ modals[k].state # "constructed"
        /\ Deliver(k, enterHandler(modals[k]), "enter", null)

Escape ==
    \E k \in DOMAIN modals :
        /\ modals[k].state # "constructed"
        /\ Deliver(k, escapeHandler(modals[k]), "escape", null)

ModalInput ==
    \/ Click
    \/ MouseOver
    \/ MouseLeave
    \/ ArrowUp
    \/ ArrowDown
    \/ Enter
    \/ Escape

-----------------------------------------------------------------------------
(* Specifications *)

\* the plugin: the command run on a note, the modals it opens, the opens it awaits
Init ==
    /\ note \in Notes
    /\ modals = <<>>
    /\ invs = <<>>
    /\ trail = <<>>
    /\ run = NoRun

Next ==
    \/ JumpCommand
    \/ OpenFileSettles
    \/ ModalInput

Spec == Init /\ [][Next]_vars

\* one invocation of the command, followed to its end
SingleJumpNext ==
    \/ JumpOnce
    \/ OpenFileSettles
    \/ ModalInput

SingleJumpSpec == Init /\ [][SingleJumpNext]_vars

\* the modal on its own, over any list of 1..MaxItems items
PickerInit ==
    /\ note = NoActiveFile
    /\ modals \in {<<Modal(GenericItems(n), 0)>> : n \in 1..MaxItems}
    /\ invs = <<>>
    /\ trail = <<>>
    /\ run = NoRun

PickerNext ==
    \/ OpenModal
    \/ ModalInput

PickerSpec == PickerInit /\ [][PickerNext]_vars

-----------------------------------------------------------------------------
(* Properties of the stand-alone modal (PickerSpec) *)

picker == modals[1]

last == trail[Len(trail)]

\* the last input was ev, delivered while the modal was open
LastOnOpen(ev) ==
    /\ trail # <<>>
    /\ last.ev = ev
    /\ last.before.state = "open"

\* the last two inputs were ev1 then ev2, the first delivered while the modal was open
LastTwoOnOpen(ev1, ev2) ==
    /\ Len(trail) = 2
    /\ trail[1].ev = ev1
    /\ trail[1].before.state = "open"
    /\ trail[2].ev = ev2

\* C1: a click on row i of an open modal over n >= 1 items calls the callback
\* exactly once, with items[i], and leaves the modal closed.
C1_ClickCallsBackOnceAndCloses ==
    LastOnOpen("click") =>
        /\ picker.calls = <<picker.items[last.arg + 1]>>
        /\ picker.state = "closed"

C1_Witness ==
    /\ LastOnOpen("click")
    /\ last.arg = 2
    /\ last.before.activeIndex = 1
    /\ picker.calls = <<picker.items[3]>>
    /\ picker.state = "closed"

\* C2: whatever inputs a modal receives, before or after it closes, the
\* callback is called at most once.
C2_CallbackAtMostOnce ==
    \A k \in DOMAIN modals : Len(modals[k].calls) <= 1

\* a key arrives after the modal closed on a selection
C2_Witness ==
    /\ Len(trail) = 2
    /\ trail[1].ev = "click"
    /\ trail[2].ev = "enter"
    /\ trail[2].before.state = "closed"
    /\ Len(picker.calls) = 1

\* C3: Escape on an open modal closes it and calls no callback, whatever was
\* highlighted and whatever came before.
C3_EscapeClosesSilently ==
    LastOnOpen("escape") =>
        /\ picker.state = "closed"
        /\ picker.calls = <<>>

C3_Witness ==
    /\ LastOnOpen("escape")
    /\ last.before.hoveredIndex = 2
    /\ last.before.activeIndex = 1
    /\ picker.state = "closed"
    /\ picker.calls = <<>>

\* C4: Enter on an open modal passes the callback the item whose row is
\* rendered highlighted when the key arrives.
C4_EnterSelectsRenderedRow ==
    (LastOnOpen("enter") /\ last.before.focused # {}) =>
        \E i \in last.before.focused :
            picker.calls = <<picker.items[i + 1]>>

\* C5: for n >= 1 items, once open() has run activeIndex is 0, hoveredIndex
\* is null and row 0 alone is rendered highlighted.
C5_OpenHighlightsFirstRow ==
    (trail # <<>> /\ last.ev = "open") =>
        /\ picker.state = "open"
        /\ picker.activeIndex = 0
        /\ picker.hoveredIndex = null
        /\ Focused(picker) = {0}

C5_Witness ==
    /\ trail # <<>>
    /\ last.ev = "open"
    /\ Len(picker.items) >= 3
    /\ Len(picker.contentEl) = Len(picker.items)
    /\ Focused(picker) = {0}

\* C6: a mouseover on row i directly followed by ArrowDown leaves row
\* (i + 1) mod n highlighted and active and hoveredIndex null, whatever
\* activeIndex was before the mouseover.
C6_HoverThenDown ==
    LastTwoOnOpen("over", "down") =>
        LET i == trail[1].arg
            n == Len(picker.items)
        IN  /\ picker.activeIndex = (i + 1) % n
            /\ picker.hoveredIndex = null
            /\ Focused(picker) = {(i + 1) % n}

C6_Witness ==
    /\ LastTwoOnOpen("over", "down")
    /\ trail[1].arg = 2
    /\ trail[1].before.activeIndex = 0
    /\ picker.activeIndex = 3 % Len(picker.items)
    /\ Focused(picker) = {picker.activeIndex}

\* C7: n ArrowDown keys in a row on n >= 1 items bring the highlight back to
\* the row that was highlighted before the first of them; with one item every
\* arrow key highlights row 0.
C7_DownWrapsAround ==
    /\ (run.count = run.before.n /\ run.before.focused # {}) =>
           Focused(picker) = run.before.focused
    /\ ((LastOnOpen("up") \/ LastOnOpen("down")) /\ last.before.n = 1) =>
           Focused(picker) = {0}

C7_Witness ==
    /\ run.count = run.before.n
    /\ run.before.n >= 3
    /\ run.before.focused = {1}
    /\ Focused(picker) = {1}

\* the row a move starts from: the one rendered highlighted, or activeIndex
\* when none is
StartRow(snap) ==
    IF snap.focused # {} THEN snap.focused ELSE {snap.activeIndex}

\* C8: on an open modal over n >= 1 items, ArrowDown then ArrowUp, and
\* ArrowUp then ArrowDown, leave highlighted the row the pair started from.
C8_UpInvertsDown ==
    (LastTwoOnOpen("down", "up") \/ LastTwoOnOpen("up", "down")) =>
        /\ Focused(picker) = StartRow(trail[1].before)
        /\ picker.activeIndex \in Focused(picker)

\* the pair wraps past the last row and comes back
C8_Witness ==
    /\ LastTwoOnOpen("down", "up")
    /\ trail[1].before.n >= 3
    /\ trail[1].before.hoveredIndex = trail[1].before.n - 1
    /\ trail[1].before.activeIndex = 0
    /\ trail[2].before.activeIndex = 0
    /\ Focused(picker) = {trail[1].before.n - 1}

-----------------------------------------------------------------------------
(* Properties of one invocation of the jump command (SingleJumpSpec; they  *)
(* hold under Spec as well)                                               *)

\* a string of the form [[...]] around at least one character
WrappedInBrackets(e) ==
    /\ e.kind = "string"
    /\ Len(e.str) >= 5
    /\ SubSeq(e.str, 1, 2) = <<"[", "[">>
    /\ SubSeq(e.str, Len(e.str) - 1, Len(e.str)) = <<"]", "]">>

FieldPresent ==
    /\ note.activeFile
    /\ note.frontmatter
    /\ note.raw.kind \notin {"undefined", "null"}

FieldIsList == FieldPresent /\ note.raw.kind = "array"

InvalidPositions ==
    {i \in DOMAIN note.raw.list : ~WrappedInBrackets(note.raw.list[i])}

Attempted(j) ==
    \/ invs[j].navs # <<>>
    \/ invs[j].opens # <<>>
    \/ invs[j].pickers > 0
    \/ \E k \in DOMAIN modals : modals[k].owner = j

\* C9: an invocation looks a link up, opens a file or opens a modal only if
\* the property is a non-empty list of bracketed links; absent, null, not a
\* list, empty, or with one entry that is not a link, it does none of these.
C9_FailFast ==
    \A j \in DOMAIN invs :
        Attempted(j) =>
            /\ FieldIsList
            /\ note.raw.list # <<>>
            /\ InvalidPositions = {}

\* a list with a link before an entry that is not one: nothing is attempted
C9_Witness ==
    /\ invs # <<>>
    /\ FieldIsList
    /\ Len(note.raw.list) >= 2
    /\ WrappedInBrackets(note.raw.list[1])
    /\ InvalidPositions # {}
    /\ ~Attempted(1)
    /\ modals = <<>>

\* C10: an invocation shows nothing when the property is absent, null or an
\* empty list, exactly one not-a-list error when it is present and no list,
\* and exactly one warning when the list has one or more invalid entries.
C10_Notices ==
    \A j \in DOMAIN invs :
        /\ (~FieldPresent \/ (FieldIsList /\ note.raw.list = <<>>)) =>
               invs[j].notices = <<>>
        /\ (FieldPresent /\ ~FieldIsList) =>
               invs[j].notices = <<"notAList">>
        /\ (FieldIsList /\ InvalidPositions # {}) =>
               invs[j].notices = <<"invalidEntries">>

\* two invalid entries and a link: one warning
C10_Witness ==
    /\ invs # <<>>
    /\ FieldIsList
    /\ Cardinality(InvalidPositions) = 2
    /\ Len(note.raw.list) = 3
    /\ invs[1].notices = <<"invalidEntries">>

\* the characters of a link between its brackets
Bare(s) == SubSeq(s, 3, Len(s) - 2)

\* the longest prefix of s holding none of the characters in stops
PrefixBefore(s, stops) ==
    LET at == {i \in 1..Len(s) : s[i] \in stops}
    IN  IF at = {} THEN s
        ELSE SubSeq(s, 1, (CHOOSE i \in at : \A j \in at : i <= j) - 1)

\* the longest suffix of s that does not hold ch
SuffixAfter(s, ch) ==
    LET at == {i \in 1..Len(s) : s[i] = ch}
    IN  IF at = {} THEN s
        ELSE SubSeq(s, (CHOOSE i \in at : \A j \in at : i >= j) + 1, Len(s))

\* the path a link resolves: what precedes the alias, heading and block parts
ResolvablePath(s) == PrefixBefore(Bare(s), {"|", "#", "^"})

\* the name a link is shown under: the last path segment of its alias, or of
\* the link itself when it has none
DisplayName(s) ==
    LET b == Bare(s)
        left == PrefixBefore(b, {"|"})
        basis == IF Len(left) = Len(b) THEN b
                 ELSE PrefixBefore(SubSeq(b, Len(left) + 2, Len(b)), {"|"})
    IN  SuffixAfter(basis, "/")

AllLinks == FieldIsList /\ note.raw.list # <<>> /\ InvalidPositions = {}

\* C11: when the property holds exactly one link, the invocation looks up that
\* link's resolvable path, once, and opens no modal.
C11_SingleLinkNavigatesDirectly ==
    (AllLinks /\ Len(note.raw.list) = 1) =>
        /\ modals = <<>>
        /\ \A j \in DOMAIN invs :
               /\ invs[j].navs = <<ResolvablePath(note.raw.list[1].str)>>
               /\ invs[j].pickers = 0
               /\ invs[j].opens \in {<<>>, invs[j].navs}

C11_Witness ==
    /\ note.raw.list = <<LinkHeading>>
    /\ FieldIsList
    /\ invs # <<>>
    /\ invs[1].navs = << <<"D", "/", "E">> >>
    /\ invs[1].opens = invs[1].navs
    /\ modals = <<>>

\* C12: when the property holds k >= 2 links, the invocation opens one modal
\* whose k items are the links in the property's order, item i shown under the
\* display name of link i; a selection of item i looks up the resolvable path
\* of link i and nothing else.
C12_PickerItemsAndSelection ==
    (AllLinks /\ Len(note.raw.list) >= 2) =>
        \A j \in DOMAIN invs :
            /\ Len(modals) = 1
            /\ modals[1].owner = j
            /\ DOMAIN modals[1].items = DOMAIN note.raw.list
            /\ \A i \in DOMAIN note.raw.list :
                   /\ modals[1].items[i].name = DisplayName(note.raw.list[i].str)
                   /\ modals[1].items[i].linkText = note.raw.list[i].str
                   /\ modals[1].state = "open" =>
                          modals[1].contentEl[i] = DisplayName(note.raw.list[i].str)
                   /\ modals[1].calls = <<modals[1].items[i]>> =>
                          invs[j].navs = <<ResolvablePath(note.raw.list[i].str)>>
            /\ modals[1].calls = <<>> => invs[j].navs = <<>>
            /\ Len(modals[1].calls) <= 1

\* the second of two links, shown under its alias, is selected
C12_Witness ==
    /\ FieldIsList
    /\ note.raw.list = <<LinkHeading, LinkAliased>>
    /\ Len(modals) = 1
    /\ modals[1].items[1].name = <<"E", "#", "h">>
    /\ modals[1].items[2].name = <<"C">>
    /\ modals[1].calls = <<modals[1].items[2]>>
    /\ invs[1].navs = << <<"F", "/", "B">> >>

LookupFailed(j) == \E i \in DOMAIN invs[j].notices : invs[j].notices[i] = "notFound"

ModalsOf(j) == {k \in DOMAIN modals : modals[k].owner = j}

\* C13 as stated: after a selection whose target is not found the modal is
\* still open for another selection; with a single link the failure ends the
\* invocation.
C13_PickerStaysOpenAfterFailedLookup ==
    \A j \in DOMAIN invs :
        LookupFailed(j) =>
            /\ \A k \in ModalsOf(j) : modals[k].state = "open"
            /\ ModalsOf(j) = {} => (invs[j].opens = <<>> /\ invs[j].pending = 0)

\* C13 as amended: a lookup that finds no file shows one warning and opens
\* nothing; the modal in which the selection was made is closed, as after any
\* selection, with no row left to select; with a single link the failure ends
\* the invocation.
C13_FailedLookupWarnsAndEnds ==
    \A j \in DOMAIN invs :
        LookupFailed(j) =>
            /\ invs[j].notices = <<"notFound">>
            /\ Len(invs[j].navs) = 1
            /\ invs[j].opens = <<>>
            /\ invs[j].pending = 0
            /\ \A k \in ModalsOf(j) :
                   /\ modals[k].state = "closed"
                   /\ modals[k].contentEl = <<>>
                   /\ Len(modals[k].calls) = 1

C13_Witness ==
    /\ invs # <<>>
    /\ LookupFailed(1)
    /\ ModalsOf(1) = {1}
    /\ Len(modals[1].items) >= 2
    /\ modals[1].state = "closed"
    /\ modals[1].calls = <<modals[1].items[2]>>
    /\ invs[1].opens = <<>>

-----------------------------------------------------------------------------
(* Properties of interleaved invocations (Spec) *)

OpenModals == {k \in DOMAIN modals : modals[k].state = "open"}

\* C14: at every instant at most one modal is open, also when the command is
\* invoked while a modal is open or while an openFile is pending.
C14_AtMostOneOpenModal == Cardinality(OpenModals) <= 1

-----------------------------------------------------------------------------
(* Highlight state of a stand-alone modal (PickerSpec), continued *)

\* C15: while the modal is open over n >= 1 items, activeIndex is a valid
\* index, 0 <= activeIndex < n, whatever arrows and pointer events came before.
C15_ActiveIndexInRange ==
    picker.state = "open" =>
        /\ picker.activeIndex >= 0
        /\ picker.activeIndex < Len(picker.items)

\* an ArrowUp on the first of at least three rows wrapped to the last one,
\* after the pointer had come and gone
C15_Witness ==
    /\ LastTwoOnOpen("leave", "up")
    /\ Len(picker.items) >= 3
    /\ last.before.activeIndex = 0
    /\ picker.activeIndex = Len(picker.items) - 1

\* the row the highlight is said to follow: the hovered one, else the active one
HoveredElseActive(m) ==
    IF m.hoveredIndex # null THEN m.hoveredIndex ELSE m.activeIndex

\* C16 as stated: while the modal is open, the highlighted row is hoveredIndex
\* if there is one, else activeIndex.
C16_HighlightIsHoveredElseActive ==
    picker.state = "open" => Focused(picker) = {HoveredElseActive(picker)}

\* C16, amended: while the modal is open, the highlighted row is hoveredIndex
\* if there is one; with no hoveredIndex it is activeIndex, except after the
\* pointer left a row, when no row is highlighted until the next arrow key or
\* mouseover.
C16_HighlightUnlessPointerLeft ==
    picker.state = "open" =>
        IF picker.hoveredIndex # null
        THEN Focused(picker) = {picker.hoveredIndex}
        ELSE IF LastOnOpen("leave")
             THEN Focused(picker) = {}
             ELSE Focused(picker) = {picker.activeIndex}

\* the pointer left a hovered row other than the active one: nothing is
\* highlighted, though activeIndex is a row
C16_Witness ==
    /\ picker.state = "open"
    /\ LastTwoOnOpen("over", "leave")
    /\ last.before.hoveredIndex # null
    /\ last.before.hoveredIndex # picker.activeIndex
    /\ last.before.focused = {last.before.hoveredIndex}
    /\ picker.hoveredIndex = null
    /\ Focused(picker) = {}

\* C17: a mouseleave on an open modal clears hoveredIndex, leaves activeIndex
\* as it was and leaves no row highlighted; a row is highlighted again only by
\* the next arrow key or mouseover.
C17_LeaveClearsHighlight ==
    /\ LastOnOpen("leave") =>
           /\ picker.hoveredIndex = null
           /\ picker.activeIndex = last.before.activeIndex
           /\ Focused(picker) = {}
    /\ (LastTwoOnOpen("leave", last.ev) /\ Focused(picker) # {}) =>
           last.ev \in {"up", "down", "over"}

\* the pointer left while the arrow-selected row 1 was highlighted
C17_Witness ==
    /\ picker.state = "open"
    /\ LastTwoOnOpen("down", "leave")
    /\ last.before.focused = {1}
    /\ picker.activeIndex = 1
    /\ Focused(picker) = {}

\* mouseover of row i (seen as hoveredIndex = i when the pointer leaves), then
\* mouseleave, then ArrowDown, the first two on an open modal
OverLeaveDown ==
    /\ LastTwoOnOpen("leave", "down")
    /\ trail[1].before.hoveredIndex # null

\* C18 as stated: mouseover of row i, mouseleave, ArrowDown leaves row
\* (i + 1) mod n highlighted, whatever activeIndex was.
C18_DownAfterLeaveFromHovered ==
    OverLeaveDown =>
        Focused(picker) =
            {(trail[1].before.hoveredIndex + 1) % Len(picker.items)}

\* C18, amended: mouseover of row i, mouseleave, ArrowDown leaves row
\* (a + 1) mod n highlighted, a being activeIndex before the mouseover; the
\* hovered row is the starting point only while the pointer is still on it.
C18_DownAfterLeaveFromActive ==
    OverLeaveDown =>
        /\ picker.activeIndex =
               (trail[1].before.activeIndex + 1) % Len(picker.items)
        /\ Focused(picker) = {picker.activeIndex}
        /\ picker.hoveredIndex = null

\* row 2 was hovered with row 0 active; after the pointer left, ArrowDown
\* highlighted row 1
C18_Witness ==
    /\ OverLeaveDown
    /\ trail[1].before.hoveredIndex = 2
    /\ trail[1].before.activeIndex = 0
    /\ Focused(picker) = {1}

\* closing released the rows, their elements and the hovered position
RowsAndHoverReleased ==
    /\ picker.hoveredIndex = null
    /\ picker.itemElements = <<>>
    /\ picker.contentEl = <<>>

\* the last input closed the modal: a click, Enter or Escape on the open modal
LastClosed ==
    /\ picker.state = "closed"
    /\ trail # <<>>
    /\ last.before.state = "open"

\* C19 as stated: a closed modal has hoveredIndex, activeIndex and the item
\* elements all reset, so it keeps no highlight position.
C19_ClosedKeepsNoHighlightState ==
    picker.state = "closed" =>
        /\ RowsAndHoverReleased
        /\ picker.activeIndex = 0

\* C19, amended: a closed modal has hoveredIndex and the item elements reset;
\* activeIndex keeps the value it had when the modal closed.
C19_ClosedKeepsActiveIndex ==
    /\ picker.state = "closed" => RowsAndHoverReleased
    /\ LastClosed => picker.activeIndex = last.before.activeIndex

\* Escape closed a modal with row 2 active and a row hovered: the hover is
\* gone, activeIndex is still 2
C19_Witness ==
    /\ LastClosed
    /\ last.ev = "escape"
    /\ last.before.hoveredIndex # null
    /\ last.before.activeIndex = 2
    /\ picker.activeIndex = 2
    /\ RowsAndHoverReleased

-----------------------------------------------------------------------------
(* Properties of one invocation (SingleJumpSpec), continued *)

\* C20: one invocation of the command shows at most one Notice and calls
\* openFile at most once, whatever the note holds, whether the file is found,
\* whether openFile fails, and whatever inputs the modal gets.
C20_AtMostOneNoticeAndOneOpen ==
    \A j \in DOMAIN invs :
        /\ Len(invs[j].notices) <= 1
        /\ Len(invs[j].opens) <= 1

\* a row of the modal was chosen, its file was found and openFile failed: one
\* openFile call, one Notice, and the closed modal takes no further choice
C20_Witness ==
    \E j \in DOMAIN invs :
        /\ invs[j].pickers = 1
        /\ \A k \in ModalsOf(j) : modals[k].state = "closed"
        /\ ModalsOf(j) # {}
        /\ Len(invs[j].opens) = 1
        /\ invs[j].pending = 0
        /\ invs[j].notices = <<"openError">>

====
